---- MODULE Spec2Model ----
(***************************************************************************)
(* Model of backend/services/cv_service.py (CVService._build_yaml_structure *)
(* with its nested normalize_url, generate_yaml, render_cv), of the /yaml   *)
(* and /ai/suggest endpoints of backend/api/render.py, and of               *)
(* AIService._call_groq of backend/services/ai_service.py.                  *)
(*                                                                         *)
(* A Python str is a sequence of one-character strings, so that strip(),   *)
(* startswith(), "in" and concatenation are computed on the characters.    *)
(* Dictionary keys, section identifiers and the theme are never inspected  *)
(* by the code and are TLA+ strings.  A Python dict whose keys vary is a   *)
(* function on the keys it holds; the order-sensitive `sections` dict is a *)
(* sequence of <<key, content>> pairs in insertion order.                  *)
(***************************************************************************)
EXTENDS Integers, Sequences, FiniteSets, TLC

VARIABLES
    \* One call of the service: its arguments, where it stands, what it returned.
    cv_data, theme, design_settings, section_order, pc, full_data,
    \* The same call made again, and generate_yaml called twice.
    full_data_again, yaml_out, yaml_out_again,
    \* render_cv and the /yaml endpoint on one request.
    output_format, render, cv_yaml, yaml_response,
    \* The /ai/suggest endpoint.
    ai_request, client, completion, groq_call, ai_response

call_vars == <<cv_data, theme, design_settings, section_order>>
again_vars == <<full_data_again, yaml_out, yaml_out_again>>
render_vars == <<output_format, render, cv_yaml, yaml_response>>
ai_vars == <<ai_request, client, completion, groq_call, ai_response>>

vars == <<call_vars, pc, full_data, again_vars, render_vars, ai_vars>>

(***************************************************************************)
(* Python values                                                           *)
(***************************************************************************)

\* Python's None (also what dict.get returns for a missing key).  It is a
\* one-element sequence whose element is no character, so that it compares
\* with every str of the model and equals none of them.
None == <<"<None>">>

\* Characters str.strip() removes (the model's alphabet has these two).
WHITESPACE == {" ", "\t"}

\* bool(v) for v a str or None.
Truthy(v) == v # None /\ v # <<>>

\* bool(l) for l a list.  The lists of the model are never None: a category or
\* highlights list that is missing is the empty list (`.get("highlights", [])`).
NonEmpty(l) == Len(l) > 0

\* str(v or "") for v a str or None.
StrOrEmpty(v) == IF Truthy(v) THEN v ELSE <<>>

\* str.strip(): drop leading and trailing whitespace.
Strip(s) ==
    LET keep == {i \in 1..Len(s) : s[i] \notin WHITESPACE}
        lo == CHOOSE i \in keep : \A j \in keep : i <= j
        hi == CHOOSE i \in keep : \A j \in keep : j <= i
    IN  IF keep = {} THEN <<>> ELSE SubSeq(s, lo, hi)

\* str(d.get(k, "") or "").strip()
Norm(v) == Strip(StrOrEmpty(v))

\* c in s, for a character c.
Contains(s, c) == \E i \in 1..Len(s) : s[i] = c

\* s.startswith(p)
StartsWith(s, p) == Len(s) >= Len(p) /\ SubSeq(s, 1, Len(p)) = p

\* The dict with no key.
EmptyDict == [k \in {} |-> <<>>]

\* {k: v} if v is truthy, else nothing: `if d.get(k): entry[k] = d[k]`.
Opt(k, v) == IF Truthy(v) THEN k :> v ELSE EmptyDict

\* The same for a list value: `if lst: d[k] = lst`.
OptList(k, l) == IF NonEmpty(l) THEN k :> l ELSE EmptyDict

\* [F(x) for x in s]
MapSeq(s, F(_)) == [i \in 1..Len(s) |-> F(s[i])]

(***************************************************************************)
(* normalize_url                                                           *)
(***************************************************************************)

HTTP == <<"h", "t", "t", "p", ":", "/", "/">>
HTTPS == <<"h", "t", "t", "p", "s", ":", "/", "/">>

\* normalize_url without its last test (a result with no "." is returned).
normalize_url_no_dot_test(url) ==
    IF ~Truthy(url) \/ Strip(url) = <<>> THEN <<>>
    ELSE LET u == Strip(url)
         IN  IF Contains(u, ",") \/ Contains(u, " ") THEN <<>>
             ELSE IF ~(StartsWith(u, HTTP) \/ StartsWith(u, HTTPS)) THEN HTTPS \o u ELSE u

normalize_url(url) ==
    IF ~Truthy(url) \/ Strip(url) = <<>> THEN <<>>
    ELSE LET u == Strip(url)
         IN  IF Contains(u, ",") \/ Contains(u, " ") THEN <<>>
             ELSE LET v == IF ~(StartsWith(u, HTTP) \/ StartsWith(u, HTTPS))
                           THEN HTTPS \o u ELSE u
                  IN  IF ~Contains(v, ".") THEN <<>> ELSE v

(***************************************************************************)
(* _build_yaml_structure: the section blocks.  A block is None until the   *)
(* code assigns it a non-empty list, and the code reads a block only in    *)
(* `if content:`, so the block left None is the falsy NoBlock.             *)
(***************************************************************************)

\* The highlights filter with `if h` alone: whitespace-only strings pass.
HighlightsKeepWhitespace(hs) == SelectSeq(hs, Truthy)

\* [h for h in e.get("highlights", []) if h and h.strip()], then
\* `if highlights: entry["highlights"] = highlights`.
Highlights(hs) == SelectSeq(hs, LAMBDA h : Truthy(h) /\ Strip(h) # <<>>)

OptHighlights(hs) == OptList("highlights", Highlights(hs))

NoBlock == <<>>

\* A list the code builds, assigned to the block only `if <list>:`.
Block(list) == IF NonEmpty(list) THEN list ELSE NoBlock

section_summary(cv) ==
    IF Truthy(cv.summary) /\ Strip(cv.summary) # <<>>
    THEN <<Strip(cv.summary)>> ELSE NoBlock

\* The experience filter asking for both fields, as the education filter does.
ExperienceAdmittedBoth(exp) == ~(Norm(exp.company) = <<>> \/ Norm(exp.position) = <<>>)

ExperienceAdmitted(exp) == ~(Norm(exp.company) = <<>> /\ Norm(exp.position) = <<>>)

ExperienceEntryOf(exp) ==
    [company |-> IF Norm(exp.company) # <<>> THEN Norm(exp.company)
                 ELSE <<"C", "o", "m", "p", "a", "n", "y">>,
     position |-> IF Norm(exp.position) # <<>> THEN Norm(exp.position)
                  ELSE <<"P", "o", "s", "i", "t", "i", "o", "n">>]
    @@ Opt("start_date", exp.start_date) @@ Opt("end_date", exp.end_date)
    @@ Opt("location", exp.location) @@ Opt("summary", exp.summary)
    @@ OptHighlights(exp.highlights)

section_experience(cv) ==
    IF ~NonEmpty(cv.experience) THEN NoBlock
    ELSE Block(MapSeq(SelectSeq(cv.experience, ExperienceAdmitted), ExperienceEntryOf))

\* The education filter asking for either field, as the experience filter does.
EducationAdmittedEither(edu) == ~(Norm(edu.institution) = <<>> /\ Norm(edu.area) = <<>>)

EducationAdmitted(edu) == ~(Norm(edu.institution) = <<>> \/ Norm(edu.area) = <<>>)

EducationEntryOf(edu) ==
    [institution |-> Norm(edu.institution), area |-> Norm(edu.area)]
    @@ Opt("degree", edu.degree)
    @@ Opt("start_date", edu.start_date) @@ Opt("end_date", edu.end_date)
    @@ Opt("location", edu.location) @@ Opt("summary", edu.summary)
    @@ OptHighlights(edu.highlights)

section_education(cv) ==
    IF ~NonEmpty(cv.education) THEN NoBlock
    ELSE Block(MapSeq(SelectSeq(cv.education, EducationAdmitted), EducationEntryOf))

ProjectAdmitted(proj) == Norm(proj.name) # <<>>

\* The name followed by the URL, with no link markup.
MarkdownLinkBare(text, url) == text \o <<" ">> \o url

\* f"[{name}]({proj['url']})"
MarkdownLink(text, url) == <<"[">> \o text \o <<"]", "(">> \o url \o <<")">>

ProjectEntryOf(proj) ==
    [name |-> IF Truthy(proj.url) THEN MarkdownLink(Norm(proj.name), proj.url)
              ELSE Norm(proj.name)]
    @@ Opt("date", proj.date)
    @@ Opt("start_date", proj.start_date) @@ Opt("end_date", proj.end_date)
    @@ Opt("location", proj.location) @@ Opt("summary", proj.summary)
    @@ OptHighlights(proj.highlights)

section_projects(cv) ==
    IF ~NonEmpty(cv.projects) THEN NoBlock
    ELSE Block(MapSeq(SelectSeq(cv.projects, ProjectAdmitted), ProjectEntryOf))

SkillAdmitted(skill) == Norm(skill.label) # <<>> \/ Norm(skill.details) # <<>>

SkillEntryOf(skill) == [label |-> Norm(skill.label), details |-> Norm(skill.details)]

section_skills(cv) ==
    IF ~NonEmpty(cv.skills) THEN NoBlock
    ELSE Block(MapSeq(SelectSeq(cv.skills, SkillAdmitted), SkillEntryOf))

\* authors: a comma-separated str, a list of str, or anything else (None).
RECURSIVE SplitComma(_)
SplitComma(s) ==
    IF ~Contains(s, ",") THEN <<s>>
    ELSE LET i == CHOOSE k \in 1..Len(s) : s[k] = "," /\ \A j \in 1..(k - 1) : s[j] # ","
         IN  <<SubSeq(s, 1, i - 1)>> \o SplitComma(SubSeq(s, i + 1, Len(s)))

\* `authors` with its isinstance made explicit: [type |-> "str" | "list" | "other",
\* text |-> the str when it is one, items |-> the list of str when it is one].
AuthorList(authors) ==
    IF authors.type = "str"
    THEN SelectSeq(MapSeq(SplitComma(authors.text), Strip), LAMBDA a : a # <<>>)
    ELSE IF authors.type = "list"
    THEN SelectSeq(MapSeq(authors.items, Strip), LAMBDA a : a # <<>>)
    ELSE <<>>

\* The publications filter on the title alone.
PublicationAdmittedTitleOnly(pub) == Norm(pub.title) # <<>>

PublicationAdmitted(pub) == Norm(pub.title) # <<>> /\ AuthorList(pub.authors) # <<>>

PublicationEntryOf(pub) ==
    [title |-> Norm(pub.title), authors |-> AuthorList(pub.authors)]
    @@ Opt("journal", pub.journal) @@ Opt("date", pub.date)
    @@ Opt("doi", pub.doi) @@ Opt("url", pub.url) @@ Opt("summary", pub.summary)

section_publications(cv) ==
    IF ~NonEmpty(cv.publications) THEN NoBlock
    ELSE Block(MapSeq(SelectSeq(cv.publications, PublicationAdmitted), PublicationEntryOf))

section_honors(cv) ==
    IF ~NonEmpty(cv.honors) THEN NoBlock
    ELSE Block(MapSeq(SelectSeq(cv.honors, LAMBDA h : Norm(h.bullet) # <<>>),
                      LAMBDA h : [bullet |-> Norm(h.bullet)]))

section_patents(cv) ==
    IF ~NonEmpty(cv.patents) THEN NoBlock
    ELSE Block(MapSeq(SelectSeq(cv.patents, LAMBDA q : Norm(q.number) # <<>>),
                      LAMBDA q : [number |-> Norm(q.number)]))

section_talks(cv) ==
    IF ~NonEmpty(cv.talks) THEN NoBlock
    ELSE Block(MapSeq(SelectSeq(cv.talks, LAMBDA t : Norm(t.reversed_number) # <<>>),
                      LAMBDA t : [reversed_number |-> Norm(t.reversed_number)]))

(***************************************************************************)
(* _build_yaml_structure: ordering the sections                            *)
(***************************************************************************)

\* The keys of section_map.
SectionIds == {"summary", "experience", "education", "projects", "skills",
               "publications", "honors", "patents", "talks"}

\* section_map[id] = (yaml_key, content)
section_map(cv) ==
    [id \in SectionIds |->
        CASE id = "summary" -> <<"Summary", section_summary(cv)>>
          [] id = "experience" -> <<"experience", section_experience(cv)>>
          [] id = "education" -> <<"education", section_education(cv)>>
          [] id = "projects" -> <<"projects", section_projects(cv)>>
          [] id = "skills" -> <<"skills", section_skills(cv)>>
          [] id = "publications" -> <<"publications", section_publications(cv)>>
          [] id = "honors" -> <<"selected_honors", section_honors(cv)>>
          [] id = "patents" -> <<"patents", section_patents(cv)>>
          [] id = "talks" -> <<"invited_talks", section_talks(cv)>>]

\* The default order with skills ahead of projects.
DefaultSectionOrderSkillsFirst ==
    <<"summary", "experience", "education", "skills", "projects",
      "publications", "honors", "patents", "talks">>

DefaultSectionOrder ==
    <<"summary", "experience", "education", "projects", "skills",
      "publications", "honors", "patents", "talks">>

\* `if not section_order: section_order = [default]`
EffectiveOrder(order) == IF ~Truthy(order) THEN DefaultSectionOrder ELSE order

\* d[k] = v that moves a key already held to the end.
DictSetMovesKey(d, k, v) == Append(SelectSeq(d, LAMBDA e : e[1] # k), <<k, v>>)

\* d[k] = v on an insertion-ordered dict held as a sequence of <<k, v>>: a new key
\* goes last, a key already held keeps its place and takes the new value.
DictSet(d, k, v) ==
    IF \E i \in 1..Len(d) : d[i][1] = k
    THEN [i \in 1..Len(d) |-> IF d[i][1] = k THEN <<k, v>> ELSE d[i]]
    ELSE Append(d, <<k, v>>)

\* The ordering loop without `if content:`: an empty block is emitted too.
RECURSIVE BuildSectionsKeepEmpty(_, _, _)
BuildSectionsKeepEmpty(map, order, sections) ==
    IF order = <<>> THEN sections
    ELSE LET section_id == Head(order)
         IN  IF section_id \in DOMAIN map
             THEN BuildSectionsKeepEmpty(map, Tail(order),
                      DictSet(sections, map[section_id][1], map[section_id][2]))
             ELSE BuildSectionsKeepEmpty(map, Tail(order), sections)

\* The loop `for section_id in section_order`, from the sections built so far.
RECURSIVE BuildSections(_, _, _)
BuildSections(map, order, sections) ==
    IF order = <<>> THEN sections
    ELSE LET section_id == Head(order)
         IN  IF section_id \in DOMAIN map /\ NonEmpty(map[section_id][2])
             THEN BuildSections(map, Tail(order),
                                DictSet(sections, map[section_id][1], map[section_id][2]))
             ELSE BuildSections(map, Tail(order), sections)

(***************************************************************************)
(* _build_yaml_structure: personal block, design block, the document       *)
(***************************************************************************)

\* The local `name` when the final block is built: line 111 assigns it from
\* cv_data, and the projects loop (line 205) assigns the same local for every
\* project it visits, admitted or not.
name_local(cv) ==
    IF NonEmpty(cv.projects) THEN Norm(cv.projects[Len(cv.projects)].name)
    ELSE Norm(cv.name)

social_networks(cv) ==
    (IF Truthy(StrOrEmpty(cv.linkedin))
     THEN <<[network |-> "LinkedIn", username |-> StrOrEmpty(cv.linkedin)]>> ELSE <<>>)
    \o (IF Truthy(StrOrEmpty(cv.github))
        THEN <<[network |-> "GitHub", username |-> StrOrEmpty(cv.github)]>> ELSE <<>>)

cv_section(cv, order) ==
    Opt("name", name_local(cv))
    @@ Opt("headline", StrOrEmpty(cv.headline))
    @@ Opt("email", StrOrEmpty(cv.email))
    @@ Opt("phone", StrOrEmpty(cv.phone))
    @@ Opt("location", StrOrEmpty(cv.location))
    @@ Opt("website", normalize_url(StrOrEmpty(cv.website)))
    @@ OptList("social_networks", social_networks(cv))
    @@ OptList("sections", BuildSections(section_map(cv), EffectiveOrder(order), <<>>))

ColorRoles == {"name", "headline", "connections", "section_titles", "links"}
FontRoles == {"body", "name", "headline", "connections", "section_titles"}

\* The design block whose colors member is written for any design_settings given,
\* an empty color included.
design_colors_unchecked(th, settings) ==
    [theme |-> th]
    @@ (IF settings.given
        THEN "colors" :> [r \in ColorRoles |-> settings.primaryColor] ELSE EmptyDict)
    @@ (IF settings.given /\ Truthy(settings.fontFamily)
        THEN "typography" :> [font_family |-> [r \in FontRoles |-> settings.fontFamily]]
        ELSE EmptyDict)

\* design_settings is [given |-> FALSE] for None, and the dict with a TRUE `given`.
design(th, settings) ==
    [theme |-> th]
    @@ (IF settings.given /\ Truthy(settings.primaryColor)
        THEN "colors" :> [r \in ColorRoles |-> settings.primaryColor] ELSE EmptyDict)
    @@ (IF settings.given /\ Truthy(settings.fontFamily)
        THEN "typography" :> [font_family |-> [r \in FontRoles |-> settings.fontFamily]]
        ELSE EmptyDict)

_build_yaml_structure(cv, th, settings, order) ==
    [cv |-> cv_section(cv, order), design |-> design(th, settings)]

(***************************************************************************)
(* The calls the model makes: bounded sets of arguments                    *)
(***************************************************************************)

MaxEntries == 2
MaxHighlights == 2
MaxOrderLen == 2
MaxUrlLen == 3

\* All sequences over S of length at most n.
RECURSIVE SeqsUpTo(_, _)
SeqsUpTo(S, n) ==
    IF n = 0 THEN {<<>>}
    ELSE LET shorter == SeqsUpTo(S, n - 1)
         IN  shorter \cup {Append(q, x) : q \in {r \in shorter : Len(r) = n - 1}, x \in S}

\* Values of a text field: missing, blank, and text with whitespace around it.
Blank == <<"\t", " ">>
Padded(c) == <<" ", c, "\t">>
FieldVals(c) == {None, Blank, Padded(c)}
PersonalVals(c) == {None, <<>>, <<" ">>, Padded(c)}

ExperienceDefault ==
    [company |-> <<"A", "c", "m", "e">>, position |-> <<"D", "e", "v">>,
     start_date |-> <<"2", "0", "2", "0">>, end_date |-> <<"p", "r", "e", "s", "e", "n", "t">>,
     location |-> <<>>, summary |-> <<>>, highlights |-> <<>>]

EducationDefault ==
    [institution |-> <<"M", "I", "T">>, area |-> <<"C", "S">>, degree |-> <<>>,
     start_date |-> <<>>, end_date |-> <<>>, location |-> <<>>, summary |-> <<>>,
     highlights |-> <<>>]

ProjectDefault ==
    [name |-> <<"P">>, date |-> <<>>, start_date |-> <<>>, end_date |-> <<>>,
     location |-> <<>>, url |-> <<>>, summary |-> <<>>, highlights |-> <<>>]

SkillDefault == [label |-> <<"L">>, details |-> <<"D">>]

AuthorsStr(t) == [type |-> "str", text |-> t, items |-> <<>>]
AuthorsList(l) == [type |-> "list", text |-> <<>>, items |-> l]
AuthorsOther == [type |-> "other", text |-> <<>>, items |-> <<>>]

PublicationDefault ==
    [title |-> <<"T">>, authors |-> AuthorsStr(<<"a", ",", "b">>), journal |-> <<>>,
     date |-> <<>>, doi |-> None, url |-> None, summary |-> None]

HighlightVals == {<<>>, <<" ">>, Padded("h"), <<"k">>}
HighlightLists == SeqsUpTo(HighlightVals, MaxHighlights)

ExperiencePool ==
    {[ExperienceDefault EXCEPT !.company = c, !.position = q, !.location = l] :
        c \in FieldVals("A"), q \in FieldVals("P"), l \in {<<>>, Padded("L")}}

EducationPool ==
    {[EducationDefault EXCEPT !.institution = i, !.area = a, !.degree = d] :
        i \in FieldVals("I"), a \in FieldVals("A"), d \in {<<>>, Padded("B")}}

ProjectPool ==
    {[ProjectDefault EXCEPT !.name = n, !.url = u, !.summary = t] :
        n \in FieldVals("P"), u \in {<<>>, <<"u", ".", "v">>}, t \in {<<>>, Padded("s")}}

SkillPool ==
    {[label |-> l, details |-> d] : l \in FieldVals("L"), d \in FieldVals("D")}

AuthorsVals ==
    {AuthorsStr(<<>>), AuthorsStr(<<" ", ",", " ">>),
     AuthorsStr(<<" ", "a", " ", ",", ",", "b">>),
     AuthorsList(<<>>), AuthorsList(<<Padded("a"), <<" ">>, <<"b">>>>), AuthorsOther}

PublicationPool ==
    {[PublicationDefault EXCEPT !.title = t, !.authors = a] :
        t \in {Blank, Padded("T")}, a \in AuthorsVals}
    \cup {[PublicationDefault EXCEPT !.title = None],
          [PublicationDefault EXCEPT !.journal = Padded("J")]}

BulletVals == {None, <<>>, <<" ">>, Padded("x")}

BlankCV ==
    [name |-> <<"A", "d", "a">>, headline |-> <<>>, email |-> <<>>, phone |-> <<>>,
     location |-> <<>>, website |-> <<>>, linkedin |-> <<>>, github |-> <<>>,
     summary |-> <<>>, experience |-> <<>>, education |-> <<>>, skills |-> <<>>,
     projects |-> <<>>, publications |-> <<>>, honors |-> <<>>, patents |-> <<>>,
     talks |-> <<>>]

\* One category list varied over the entries of its pool, the rest blank.
EntryCVs ==
    {[BlankCV EXCEPT !.experience = l] : l \in SeqsUpTo(ExperiencePool, MaxEntries)}
    \cup {[BlankCV EXCEPT !.education = l] : l \in SeqsUpTo(EducationPool, MaxEntries)}
    \cup {[BlankCV EXCEPT !.projects = l] : l \in SeqsUpTo(ProjectPool, MaxEntries)}
    \cup {[BlankCV EXCEPT !.skills = l] : l \in SeqsUpTo(SkillPool, MaxEntries)}
    \cup {[BlankCV EXCEPT !.publications = l] : l \in SeqsUpTo(PublicationPool, MaxEntries)}
    \cup {[BlankCV EXCEPT !.honors = l] :
            l \in SeqsUpTo({[bullet |-> b] : b \in BulletVals}, MaxEntries)}
    \cup {[BlankCV EXCEPT !.patents = l] :
            l \in SeqsUpTo({[number |-> b] : b \in BulletVals}, MaxEntries)}
    \cup {[BlankCV EXCEPT !.talks = l] :
            l \in SeqsUpTo({[reversed_number |-> b] : b \in BulletVals}, MaxEntries)}
    \cup {[BlankCV EXCEPT !.summary = t] : t \in PersonalVals("s")}

\* One entry whose highlights vary.
HighlightCVs ==
    {[BlankCV EXCEPT !.experience = <<[ExperienceDefault EXCEPT !.highlights = h]>>] :
        h \in HighlightLists}
    \cup {[BlankCV EXCEPT !.education = <<[EducationDefault EXCEPT !.highlights = h]>>] :
            h \in HighlightLists}
    \cup {[BlankCV EXCEPT !.projects = <<[ProjectDefault EXCEPT !.highlights = h]>>] :
            h \in HighlightLists}
    \cup {[BlankCV EXCEPT !.experience =
                <<[ExperienceDefault EXCEPT !.company = Blank, !.position = None,
                                            !.highlights = h],
                  [ExperienceDefault EXCEPT !.highlights = h]>>] : h \in HighlightLists}
    \cup {[BlankCV EXCEPT !.education =
                <<[EducationDefault EXCEPT !.area = Blank, !.highlights = h],
                  [EducationDefault EXCEPT !.highlights = h]>>] : h \in HighlightLists}
    \cup {[BlankCV EXCEPT !.projects =
                <<[ProjectDefault EXCEPT !.name = Blank, !.highlights = h],
                  [ProjectDefault EXCEPT !.highlights = h]>>] : h \in HighlightLists}

\* The personal fields varied together, with a projects list beside them.
PersonalCVs ==
    {[BlankCV EXCEPT !.name = n, !.headline = h, !.email = e, !.phone = t,
                     !.location = l, !.website = w, !.projects = p] :
        n \in PersonalVals("N"), h \in PersonalVals("H"), e \in PersonalVals("e"),
        t \in PersonalVals("7"), l \in PersonalVals("L"),
        w \in {<<>>, <<" ">>, <<" ", "w", ".", "x">>},
        p \in {<<>>, <<ProjectDefault>>, <<[ProjectDefault EXCEPT !.name = Blank]>>}}
    \cup {[BlankCV EXCEPT !.linkedin = a, !.github = g] :
            a \in PersonalVals("i"), g \in PersonalVals("g")}

\* Website values: every string over UrlChars up to MaxUrlLen, bare and behind a
\* scheme, and the strings the specification names.
UrlChars == {"a", ".", ",", " ", "\t"}

ExampleCom == <<"e", "x", "a", "m", "p", "l", "e", ".", "c", "o", "m">>
NotAUrl == <<"n", "o", "t", " ", "a", " ", "u", "r", "l", ",", " ", "t", "w", "o">>
HttpsAB == HTTPS \o <<"a", ".", "b">>

UrlInputs ==
    {pre \o body : pre \in {<<>>, HTTP, HTTPS}, body \in SeqsUpTo(UrlChars, MaxUrlLen)}
    \cup {None, ExampleCom, NotAUrl, HttpsAB, <<" ">> \o HttpsAB \o <<"\t">>,
          <<"f", "t", "p", ":", "/", "/", "a", ".", "b">>,
          <<"H", "T", "T", "P", "S", ":", "/", "/", "a", ".", "b">>,
          <<"h", "t", "t", "p", "s", ":", "/", "a", ".", "b">>}

UrlCVs == {[BlankCV EXCEPT !.website = w] : w \in UrlInputs}

\* The CV whose populated categories are exactly those of P.
PopulatedCV(P) ==
    [BlankCV EXCEPT
        !.summary = IF "summary" \in P THEN <<"S", "u", "m">> ELSE <<>>,
        !.experience = IF "experience" \in P THEN <<ExperienceDefault>> ELSE <<>>,
        !.education = IF "education" \in P THEN <<EducationDefault>> ELSE <<>>,
        !.projects = IF "projects" \in P THEN <<ProjectDefault>> ELSE <<>>,
        !.skills = IF "skills" \in P THEN <<SkillDefault>> ELSE <<>>,
        !.publications = IF "publications" \in P THEN <<PublicationDefault>> ELSE <<>>,
        !.honors = IF "honors" \in P THEN <<[bullet |-> <<"H">>]>> ELSE <<>>,
        !.patents = IF "patents" \in P THEN <<[number |-> <<"N">>]>> ELSE <<>>,
        !.talks = IF "talks" \in P THEN <<[reversed_number |-> <<"R">>]>> ELSE <<>>]

\* Section identifiers a caller may send: the known ones and an unknown one.
OrderIds == SectionIds \cup {"bogus"}

\* None, the empty list and a few fixed orderings, for every set of populated
\* categories.
FixedOrders ==
    {None, <<>>, <<"skills", "summary">>,
     <<"skills", "bogus", "summary", "skills", "honors">>,
     <<"talks", "patents", "honors", "publications", "skills", "projects",
       "education", "experience", "summary">>}

\* All, none, all but one and just one category populated, for every ordering
\* up to MaxOrderLen.
NearPatterns ==
    {SectionIds, {}} \cup {SectionIds \ {c} : c \in SectionIds} \cup {{c} : c \in SectionIds}

DesignVals(c) == {None, <<>>, c}

DesignSettings ==
    {[given |-> FALSE, primaryColor |-> None, fontFamily |-> None]}
    \cup {[given |-> TRUE, primaryColor |-> c, fontFamily |-> f] :
            c \in DesignVals(<<"#", "1", "1", "2", "2", "3", "3">>),
            f \in DesignVals(<<"I", "n", "t", "e", "r">>)}

NoDesign == [given |-> FALSE, primaryColor |-> None, fontFamily |-> None]

(***************************************************************************)
(* The state machine: one call of _build_yaml_structure                    *)
(***************************************************************************)

\* Nothing has been called a second time or dumped.
AgainIdle == full_data_again = None /\ yaml_out = None /\ yaml_out_again = None

\* render_cv has not been entered: no temporary directory, nothing pending.
RenderNotStarted ==
    [pc |-> "idle", temp_dir |-> "none", pending |-> "none", error |-> "",
     name |-> None, generated |-> "", output |-> "", filename |-> None]

\* The /yaml endpoint has not answered.
NoYamlResponse == [status |-> 0, yaml |-> None]

\* No render_cv call and no /yaml request is under way.
RenderIdle ==
    /\ output_format = "png"
    /\ render = RenderNotStarted
    /\ cv_yaml = None
    /\ yaml_response = NoYamlResponse

\* No request has reached /ai/suggest.
NoAiRequest == [type |-> "summary", text |-> <<>>, context |-> <<>>]
NoCompletion == [outcome |-> "none", content |-> <<>>]
NoCall == [state |-> "none", raised |-> FALSE, result |-> <<>>, skills |-> <<>>]
NoAiResponse ==
    [pc |-> "idle", status |-> 0, suggestion |-> <<>>, suggestions |-> <<>>,
     has_suggestions |-> FALSE, detail |-> <<>>]

\* No /ai/suggest request is under way.
AiIdle ==
    /\ ai_request = NoAiRequest
    /\ client = "None"
    /\ completion = NoCompletion
    /\ groq_call = NoCall
    /\ ai_response = NoAiResponse

\* The call _build_yaml_structure(cv, th, settings, order) has been made.
Called(cv, th, settings, order) ==
    /\ cv_data = cv
    /\ theme = th
    /\ design_settings = settings
    /\ section_order = order
    /\ pc = "called"
    /\ full_data = None
    /\ AgainIdle /\ RenderIdle /\ AiIdle

Init ==
    \/ \E cv \in EntryCVs : Called(cv, "classic", NoDesign, None)
    \/ \E cv \in HighlightCVs : Called(cv, "classic", NoDesign, None)
    \/ \E cv \in PersonalCVs : Called(cv, "classic", NoDesign, None)
    \/ \E cv \in UrlCVs : Called(cv, "classic", NoDesign, None)
    \/ \E P \in SUBSET SectionIds, o \in FixedOrders :
            Called(PopulatedCV(P), "classic", NoDesign, o)
    \/ \E P \in NearPatterns, o \in SeqsUpTo(OrderIds, MaxOrderLen) :
            Called(PopulatedCV(P), "classic", NoDesign, o)
    \/ \E th \in {"classic", "moderncv", "retro"}, d \in DesignSettings :
            Called(PopulatedCV({"summary", "skills"}), th, d, None)

\* The call that trims the summary in place, in the caller's cv_data.
BuildYamlStructureTrimmingInput ==
    /\ pc = "called"
    /\ full_data' = _build_yaml_structure(cv_data, theme, design_settings, section_order)
    /\ cv_data' = [cv_data EXCEPT !.summary = Norm(cv_data.summary)]
    /\ pc' = "returned"
    /\ UNCHANGED <<theme, design_settings, section_order, again_vars, render_vars, ai_vars>>

BuildYamlStructure ==
    /\ pc = "called"
    /\ full_data' = _build_yaml_structure(cv_data, theme, design_settings, section_order)
    /\ pc' = "returned"
    /\ UNCHANGED <<call_vars, again_vars, render_vars, ai_vars>>

Next == BuildYamlStructure

Spec == Init /\ [][Next]_vars

(***************************************************************************)
(* Reading the returned document                                           *)
(***************************************************************************)

Returned == pc = "returned"

\* The `sections` container of the document, empty when the member is absent.
Sections == IF "sections" \in DOMAIN full_data.cv THEN full_data.cv.sections ELSE <<>>

SectionKeys == [i \in 1..Len(Sections) |-> Sections[i][1]]

\* The list emitted under a section key, empty when the key is absent.
SectionContent(key) ==
    IF \E i \in 1..Len(Sections) : Sections[i][1] = key
    THEN Sections[CHOOSE i \in 1..Len(Sections) : Sections[i][1] = key][2]
    ELSE <<>>

\* The category is named by the ordering the call runs with.
Ordered(id) ==
    \E i \in 1..Len(EffectiveOrder(section_order)) : EffectiveOrder(section_order)[i] = id

\* The sequence without the later occurrences of its elements.
RECURSIVE FirstOccurrences(_)
FirstOccurrences(q) ==
    IF q = <<>> THEN <<>>
    ELSE LET front == FirstOccurrences(SubSeq(q, 1, Len(q) - 1))
             last == q[Len(q)]
         IN  IF \E i \in 1..Len(front) : front[i] = last THEN front ELSE Append(front, last)

\* The output key of each known identifier, as the specification lists them.
OutputKey ==
    [id \in SectionIds |->
        CASE id = "summary" -> "Summary"
          [] id = "honors" -> "selected_honors"
          [] id = "talks" -> "invited_talks"
          [] OTHER -> id]

\* The category has a non-empty block for the call's cv_data.
Populated(id) == id \in SectionIds /\ Len(section_map(cv_data)[id][2]) > 0

\* The keys the ordering `order` must produce: its known identifiers with a
\* non-empty block, first occurrences only, as output keys.
KeysFor(order) ==
    LET ids == FirstOccurrences(SelectSeq(order, Populated))
    IN  [i \in 1..Len(ids) |-> OutputKey[ids[i]]]

\* C1 as stated: for every supplied ordering (any finite sequence, the empty one
\* included) the keys of `sections` are the output keys of the known, populated
\* identifiers of the sequence, in first-occurrence order, and nothing else.
C1_AnySequenceOrdersSections ==
    (Returned /\ section_order # None) => SectionKeys = KeysFor(section_order)

\* C1 amended: the same for every non-empty supplied ordering, each key holding
\* its category's block; the empty ordering is run as the default sequence.
C1_NonEmptyOrderingOrdersSections ==
    Returned =>
        /\ (section_order # None /\ section_order # <<>>) =>
                /\ SectionKeys = KeysFor(section_order)
                /\ \A id \in SectionIds : Ordered(id) =>
                      SectionContent(OutputKey[id]) = section_map(cv_data)[id][2]
        /\ section_order = <<>> => SectionKeys = KeysFor(DefaultSectionOrder)

C1_Witness ==
    /\ Returned
    /\ section_order = <<"skills", "bogus", "summary", "skills", "honors">>
    /\ \A id \in SectionIds : Populated(id)
    /\ SectionKeys = <<"skills", "Summary", "selected_honors">>

\* C2: with no ordering supplied the non-empty sections come out in the default
\* sequence, under the fixed output keys Summary, experience, education, projects,
\* skills, publications, selected_honors, patents, invited_talks.
C2_DefaultOrderAndKeys ==
    (Returned /\ section_order = None) =>
        LET ids == SelectSeq(<<"summary", "experience", "education", "projects", "skills",
                               "publications", "honors", "patents", "talks">>, Populated)
            keys == [id \in SectionIds |->
                        CASE id = "summary" -> "Summary"
                          [] id = "experience" -> "experience"
                          [] id = "education" -> "education"
                          [] id = "projects" -> "projects"
                          [] id = "skills" -> "skills"
                          [] id = "publications" -> "publications"
                          [] id = "honors" -> "selected_honors"
                          [] id = "patents" -> "patents"
                          [] id = "talks" -> "invited_talks"]
        IN  /\ Len(Sections) = Len(ids)
            /\ \A i \in 1..Len(ids) : Sections[i][1] = keys[ids[i]]

C2_Witness ==
    /\ Returned
    /\ section_order = None
    /\ SectionKeys = <<"Summary", "experience", "education", "projects", "skills",
                       "publications", "selected_honors", "patents", "invited_talks">>

\* A text field is empty after trimming (None and missing count as empty).
EmptyAfterTrim(v) == v = None \/ \A i \in 1..Len(v) : v[i] \in WHITESPACE

C4_NoEmptySection ==
    Returned =>
        /\ \A i \in 1..Len(Sections) : Len(Sections[i][2]) > 0
        /\ "sections" \in DOMAIN full_data.cv => Len(full_data.cv.sections) > 0
        /\ (Len(cv_data.education) = 1 /\ EmptyAfterTrim(cv_data.education[1].area)) =>
                \A i \in 1..Len(Sections) : Sections[i][1] # "education"

C4_Witness ==
    /\ Returned
    /\ Len(cv_data.education) = 1
    /\ cv_data.education[1].institution = Padded("I")
    /\ cv_data.education[1].area = None
    /\ "name" \in DOMAIN full_data.cv
    /\ "sections" \notin DOMAIN full_data.cv

PersonalFields == {"name", "headline", "email", "phone", "location", "website"}

\* C5: a personal-info field whose input value is empty after normalization (trimmed,
\* None and missing as "") is not in the document.
C5_NoEmptyPersonalField ==
    Returned =>
        \A f \in PersonalFields : EmptyAfterTrim(cv_data[f]) => f \notin DOMAIN full_data.cv

\* A str has no leading or trailing whitespace.
Trimmed(v) == v = <<>> \/ (v[1] \notin WHITESPACE /\ v[Len(v)] \notin WHITESPACE)

\* The fields of an entry that hold a list of str.
ListFields == {"highlights", "authors"}

\* The entries (dicts) emitted into sections; the Summary block holds a str.
EntryBlocks == {i \in 1..Len(Sections) : Sections[i][1] # "Summary"}

\* C6: every string field of every emitted entry, and every element of its
\* highlights, is trimmed.
C6_EntryStringsTrimmed ==
    Returned =>
        \A i \in EntryBlocks : \A j \in 1..Len(Sections[i][2]) :
            LET entry == Sections[i][2][j]
            IN  \A k \in DOMAIN entry :
                    IF k \in ListFields
                    THEN \A n \in 1..Len(entry[k]) : Trimmed(entry[k][n])
                    ELSE Trimmed(entry[k])

\* C7: no emitted entry has a field whose value is the empty string.
C7_NoEmptyStringField ==
    Returned =>
        \A i \in EntryBlocks : \A j \in 1..Len(Sections[i][2]) :
            LET entry == Sections[i][2][j]
            IN  \A k \in DOMAIN entry : k \notin ListFields => Len(entry[k]) > 0

\* The emitted entries stand for the admitted inputs, one for one and in order,
\* and each carries exactly the non-blank highlights of its input, in input order,
\* or no highlights field when none is left.
HighlightsKept(id, admitted) ==
    LET emitted == SectionContent(id)
    IN  /\ Ordered(id) => Len(emitted) = Len(admitted)
        /\ Len(emitted) \in {0, Len(admitted)}
        /\ \A i \in 1..Len(emitted) :
              LET survivors == SelectSeq(admitted[i].highlights, LAMBDA h : ~EmptyAfterTrim(h))
              IN  IF survivors = <<>> THEN "highlights" \notin DOMAIN emitted[i]
                  ELSE /\ "highlights" \in DOMAIN emitted[i]
                       /\ emitted[i].highlights = survivors

\* C8: the highlights of every emitted experience, education and project entry are
\* exactly the input highlights that are not blank or whitespace-only, in input
\* order, and the field is absent when none is left.
C8_HighlightsAreNonBlankInputs ==
    Returned =>
        /\ HighlightsKept("experience",
              SelectSeq(cv_data.experience,
                  LAMBDA e : ~EmptyAfterTrim(e.company) \/ ~EmptyAfterTrim(e.position)))
        /\ HighlightsKept("education",
              SelectSeq(cv_data.education,
                  LAMBDA e : ~EmptyAfterTrim(e.institution) /\ ~EmptyAfterTrim(e.area)))
        /\ HighlightsKept("projects",
              SelectSeq(cv_data.projects, LAMBDA e : ~EmptyAfterTrim(e.name)))

C8_Witness ==
    /\ Returned
    /\ Len(cv_data.experience) = 1
    /\ cv_data.experience[1].highlights = <<<<" ">>, Padded("h")>>
    /\ SectionContent("experience")[1].highlights = <<Padded("h")>>

\* The four-step policy of the specification, on a str.
RECURSIVE DropLeading(_)
DropLeading(t) ==
    IF t # <<>> /\ Head(t) \in WHITESPACE THEN DropLeading(Tail(t)) ELSE t

RECURSIVE DropTrailing(_)
DropTrailing(t) ==
    IF t # <<>> /\ t[Len(t)] \in WHITESPACE THEN DropTrailing(SubSeq(t, 1, Len(t) - 1)) ELSE t

HasSchemePrefix(t) ==
    \/ (Len(t) >= 7 /\ SubSeq(t, 1, 7) = <<"h", "t", "t", "p", ":", "/", "/">>)
    \/ (Len(t) >= 8 /\ SubSeq(t, 1, 8) = <<"h", "t", "t", "p", "s", ":", "/", "/">>)

UrlPolicy(raw) ==
    LET t == DropTrailing(DropLeading(raw))
        withScheme == IF HasSchemePrefix(t) THEN t
                      ELSE <<"h", "t", "t", "p", "s", ":", "/", "/">> \o t
    IN  CASE t = <<>> -> <<>>
          [] t # <<>> /\ (\E i \in 1..Len(t) : t[i] \in {",", " "}) -> <<>>
          [] OTHER -> IF \E i \in 1..Len(withScheme) : withScheme[i] = "."
                      THEN withScheme ELSE <<>>

\* The website of the document, "" when the member is absent.
WebsiteOut == IF "website" \in DOMAIN full_data.cv THEN full_data.cv.website ELSE <<>>

C10_ExperienceAdmissionAndPlaceholders ==
    Returned =>
        LET admitted == SelectSeq(cv_data.experience,
                            LAMBDA e : ~EmptyAfterTrim(e.company) \/ ~EmptyAfterTrim(e.position))
            emitted == SectionContent("experience")
        IN  /\ Ordered("experience") => Len(emitted) = Len(admitted)
            /\ Len(emitted) \in {0, Len(admitted)}
            /\ \A i \in 1..Len(emitted) :
                  /\ emitted[i].company =
                        IF EmptyAfterTrim(admitted[i].company)
                        THEN <<"C", "o", "m", "p", "a", "n", "y">>
                        ELSE DropTrailing(DropLeading(admitted[i].company))
                  /\ emitted[i].position =
                        IF EmptyAfterTrim(admitted[i].position)
                        THEN <<"P", "o", "s", "i", "t", "i", "o", "n">>
                        ELSE DropTrailing(DropLeading(admitted[i].position))
                  /\ emitted[i].company # <<>> /\ emitted[i].position # <<>>

C10_Witness ==
    /\ Returned
    /\ Len(cv_data.experience) = 2
    /\ cv_data.experience[1].company = None /\ cv_data.experience[1].position = Blank
    /\ cv_data.experience[2].company = None /\ cv_data.experience[2].position = Padded("P")
    /\ Len(SectionContent("experience")) = 1
    /\ SectionContent("experience")[1].company = <<"C", "o", "m", "p", "a", "n", "y">>
    /\ SectionContent("experience")[1].position = <<"P">>

\* The comma-separated pieces of a str, left to right: `cur` is the piece being
\* read, `done` the pieces before it.
RECURSIVE CommaPieces(_, _, _)
CommaPieces(rest, cur, done) ==
    IF rest = <<>> THEN Append(done, cur)
    ELSE IF Head(rest) = "," THEN CommaPieces(Tail(rest), <<>>, Append(done, cur))
    ELSE CommaPieces(Tail(rest), Append(cur, Head(rest)), done)

\* The pieces trimmed, the empty ones dropped.
RECURSIVE TrimmedNonEmpty(_)
TrimmedNonEmpty(pieces) ==
    IF pieces = <<>> THEN <<>>
    ELSE (IF EmptyAfterTrim(Head(pieces)) THEN <<>>
          ELSE <<DropTrailing(DropLeading(Head(pieces)))>>) \o TrimmedNonEmpty(Tail(pieces))

\* The authors an input publication resolves to.
ResolvedAuthors(pub) ==
    CASE pub.authors.type = "str" -> TrimmedNonEmpty(CommaPieces(pub.authors.text, <<>>, <<>>))
      [] pub.authors.type = "list" -> TrimmedNonEmpty(pub.authors.items)
      [] OTHER -> <<>>

\* C11: a publication is admitted iff its title is non-empty after trimming and
\* its authors (a comma-separated string or a list) give at least one non-empty
\* trimmed token; the emitted authors are exactly those tokens in order; authors
\* that are neither a string nor a list drop the entry.
C11_PublicationNeedsTitleAndAuthors ==
    Returned =>
        LET admitted == SelectSeq(cv_data.publications,
                            LAMBDA e : ~EmptyAfterTrim(e.title) /\ ResolvedAuthors(e) # <<>>)
            emitted == SectionContent("publications")
        IN  /\ Ordered("publications") => Len(emitted) = Len(admitted)
            /\ Len(emitted) \in {0, Len(admitted)}
            /\ \A i \in 1..Len(emitted) :
                  /\ emitted[i].title = DropTrailing(DropLeading(admitted[i].title))
                  /\ emitted[i].authors = ResolvedAuthors(admitted[i])
                  /\ admitted[i].authors.type \in {"str", "list"}

C11_Witness ==
    /\ Returned
    /\ Len(cv_data.publications) = 2
    /\ cv_data.publications[1].title = Padded("T")
    /\ cv_data.publications[1].authors.type = "other"
    /\ cv_data.publications[2].title = Padded("T")
    /\ cv_data.publications[2].authors = AuthorsStr(<<" ", "a", " ", ",", ",", "b">>)
    /\ Len(SectionContent("publications")) = 1
    /\ SectionContent("publications")[1].authors = <<<<"a">>, <<"b">>>>

\* C12: a project is admitted iff its name is non-empty after trimming; the
\* emitted name is the trimmed name when the entry has no URL and [name](url),
\* with the entry's URL, when it has one.
C12_ProjectNameAndLink ==
    Returned =>
        LET admitted == SelectSeq(cv_data.projects, LAMBDA e : ~EmptyAfterTrim(e.name))
            emitted == SectionContent("projects")
        IN  /\ Ordered("projects") => Len(emitted) = Len(admitted)
            /\ Len(emitted) \in {0, Len(admitted)}
            /\ \A i \in 1..Len(emitted) :
                  LET trimmed == DropTrailing(DropLeading(admitted[i].name))
                      url == admitted[i].url
                  IN  emitted[i].name =
                        IF url = None \/ url = <<>> THEN trimmed
                        ELSE <<"[">> \o trimmed \o <<"]">> \o <<"(">> \o url \o <<")">>

C12_Witness ==
    /\ Returned
    /\ Len(cv_data.projects) = 2
    /\ cv_data.projects[1].name = Blank
    /\ cv_data.projects[2].name = Padded("P")
    /\ cv_data.projects[2].url = <<"u", ".", "v">>
    /\ Len(SectionContent("projects")) = 1
    /\ SectionContent("projects")[1].name = <<"[", "P", "]", "(", "u", ".", "v", ")">>

\* A design override is supplied and non-empty.
Supplied(v) == design_settings.given /\ v # None /\ v # <<>>

\* C13: the design block always holds the supplied theme unchanged; it has a colors
\* member iff a non-empty primary color is supplied, every color role then being
\* that color; it has a typography member iff a non-empty font family is supplied,
\* every typography role then being that font.
C13_DesignBroadcast ==
    Returned =>
        LET d == full_data.design
        IN  /\ d.theme = theme
            /\ "colors" \in DOMAIN d <=> Supplied(design_settings.primaryColor)
            /\ "colors" \in DOMAIN d =>
                  /\ DOMAIN d.colors =
                        {"name", "headline", "connections", "section_titles", "links"}
                  /\ \A r \in DOMAIN d.colors : d.colors[r] = design_settings.primaryColor
            /\ "typography" \in DOMAIN d <=> Supplied(design_settings.fontFamily)
            /\ "typography" \in DOMAIN d =>
                  /\ DOMAIN d.typography = {"font_family"}
                  /\ DOMAIN d.typography.font_family =
                        {"body", "name", "headline", "connections", "section_titles"}
                  /\ \A r \in DOMAIN d.typography.font_family :
                        d.typography.font_family[r] = design_settings.fontFamily

C13_Witness ==
    /\ Returned
    /\ theme = "classic"
    /\ design_settings.given
    /\ design_settings.primaryColor = <<"#", "1", "1", "2", "2", "3", "3">>
    /\ design_settings.fontFamily = <<>>
    /\ full_data.design.colors.links = <<"#", "1", "1", "2", "2", "3", "3">>
    /\ "typography" \notin DOMAIN full_data.design

\* C17: the name of the personal block is the trimmed name of the input, present
\* iff that is non-empty, whatever the projects list holds.
C17_NameIsInputName ==
    Returned =>
        /\ "name" \in DOMAIN full_data.cv <=> ~EmptyAfterTrim(cv_data.name)
        /\ "name" \in DOMAIN full_data.cv =>
              full_data.cv.name = DropTrailing(DropLeading(cv_data.name))

(***************************************************************************)
(* yaml.dump(full_data, allow_unicode=True, default_flow_style=False,       *)
(* sort_keys=False): the block-style text of the document, its mappings in  *)
(* insertion order.  The text is a sequence of tokens (indentation, keys,   *)
(* punctuation, the characters of the scalars).  PyYAML's choice between    *)
(* plain and quoted scalars is left out: every scalar is written quoted.    *)
(***************************************************************************)

RECURSIVE Flatten(_)
Flatten(parts) == IF parts = <<>> THEN <<>> ELSE Head(parts) \o Flatten(Tail(parts))

Scalar(v) == <<"'">> \o v \o <<"'">>

\* The order in which the code inserts the keys of an entry, for every category.
EntryKeyOrder ==
    <<"company", "position", "institution", "area", "degree", "name", "label", "details",
      "title", "authors", "journal", "date", "doi", "url", "start_date", "end_date",
      "location", "summary", "highlights", "bullet", "number", "reversed_number">>

\* One entry of a section as a block-sequence item at indentation `ind`.
DumpEntry(entry, ind) ==
    LET keys == SelectSeq(EntryKeyOrder, LAMBDA k : k \in DOMAIN entry)
    IN  Flatten([i \in 1..Len(keys) |->
            <<ind, IF i = 1 THEN "- " ELSE "  ", keys[i], ":">>
            \o (IF keys[i] \in {"highlights", "authors"}
                THEN <<"\n">> \o Flatten([j \in 1..Len(entry[keys[i]]) |->
                        <<ind, "  ", "- ">> \o Scalar(entry[keys[i]][j]) \o <<"\n">>])
                ELSE <<" ">> \o Scalar(entry[keys[i]]) \o <<"\n">>)])

\* One section: its key, then its items (strings for Summary, entries otherwise).
DumpSection(key, content) ==
    <<"    ", key, ":", "\n">>
    \o Flatten([i \in 1..Len(content) |->
            IF key = "Summary" THEN <<"    ", "- ">> \o Scalar(content[i]) \o <<"\n">>
            ELSE DumpEntry(content[i], "    ")])

CvKeyOrder ==
    <<"name", "headline", "email", "phone", "location", "website",
      "social_networks", "sections">>

DumpCv(cvs) ==
    LET keys == SelectSeq(CvKeyOrder, LAMBDA k : k \in DOMAIN cvs)
    IN  Flatten([i \in 1..Len(keys) |->
            CASE keys[i] = "sections" ->
                    <<"  ", "sections", ":", "\n">>
                    \o Flatten([j \in 1..Len(cvs.sections) |->
                            DumpSection(cvs.sections[j][1], cvs.sections[j][2])])
              [] keys[i] = "social_networks" ->
                    <<"  ", "social_networks", ":", "\n">>
                    \o Flatten([j \in 1..Len(cvs.social_networks) |->
                            <<"  ", "- ", "network", ":", " ", cvs.social_networks[j].network, "\n",
                              "  ", "  ", "username", ":", " ">>
                            \o Scalar(cvs.social_networks[j].username) \o <<"\n">>])
              [] OTHER -> <<"  ", keys[i], ":", " ">> \o Scalar(cvs[keys[i]]) \o <<"\n">>])

ColorRoleOrder == <<"name", "headline", "connections", "section_titles", "links">>
FontRoleOrder == <<"body", "name", "headline", "connections", "section_titles">>

DumpDesign(d) ==
    <<"  ", "theme", ":", " ", d.theme, "\n">>
    \o (IF "colors" \in DOMAIN d
        THEN <<"  ", "colors", ":", "\n">>
             \o Flatten([i \in 1..Len(ColorRoleOrder) |->
                    <<"    ", ColorRoleOrder[i], ":", " ">>
                    \o Scalar(d.colors[ColorRoleOrder[i]]) \o <<"\n">>])
        ELSE <<>>)
    \o (IF "typography" \in DOMAIN d
        THEN <<"  ", "typography", ":", "\n", "    ", "font_family", ":", "\n">>
             \o Flatten([i \in 1..Len(FontRoleOrder) |->
                    <<"      ", FontRoleOrder[i], ":", " ">>
                    \o Scalar(d.typography.font_family[FontRoleOrder[i]]) \o <<"\n">>])
        ELSE <<>>)

yaml_dump(doc) ==
    <<"cv", ":">> \o (IF DOMAIN doc.cv = {} THEN <<" ", "{}", "\n">>
                      ELSE <<"\n">> \o DumpCv(doc.cv))
    \o <<"design", ":", "\n">> \o DumpDesign(doc.design)

\* CVService.generate_yaml: it takes no section_order and passes none on.
generate_yaml(cv, th, settings) == yaml_dump(_build_yaml_structure(cv, th, settings, None))

(***************************************************************************)
(* The same call made twice, then generate_yaml called twice                *)
(***************************************************************************)

BuildYamlStructureAgain ==
    /\ pc = "returned"
    /\ full_data_again' =
            _build_yaml_structure(cv_data, theme, design_settings, section_order)
    /\ pc' = "returned_again"
    /\ UNCHANGED <<call_vars, full_data, yaml_out, yaml_out_again, render_vars, ai_vars>>

GenerateYaml ==
    /\ pc = "returned_again"
    /\ yaml_out' = generate_yaml(cv_data, theme, design_settings)
    /\ pc' = "dumped"
    /\ UNCHANGED <<call_vars, full_data, full_data_again, yaml_out_again, render_vars, ai_vars>>

GenerateYamlAgain ==
    /\ pc = "dumped"
    /\ yaml_out_again' = generate_yaml(cv_data, theme, design_settings)
    /\ pc' = "dumped_again"
    /\ UNCHANGED <<call_vars, full_data, full_data_again, yaml_out, render_vars, ai_vars>>

NextTwice ==
    \/ BuildYamlStructure
    \/ BuildYamlStructureAgain
    \/ GenerateYaml
    \/ GenerateYamlAgain

SpecTwice == Init /\ [][NextTwice]_vars

ReplaceSpaces(s) == [i \in 1..Len(s) |-> IF s[i] = " " THEN "_" ELSE s[i]]

PdfSuffix == <<"_", "C", "V", ".", "p", "d", "f">>
PngSuffix == <<"_", "C", "V", ".", "p", "n", "g">>

\* What generate_pdf / generate_png can hand back: a file that exists (a non-empty
\* list of pages), a path that does not exist (an empty list), None, or an exception.
RendererOutcomes == {"produced", "absent", "None", "raise"}

\* An exception leaves the try block: the finally clause runs with it pending.
Raising(r, e) == [r EXCEPT !.pc = "finally", !.pending = "raise", !.error = e]

\* Names a direct caller of render_cv may pass: plain, with a space, missing.
RenderNames == {<<"A", "d", "a">>, <<"A", " ", "B">>, None}

\* render_cv(cv, fmt, th, settings, order) is about to run; the same request is
\* about to reach the /yaml endpoint.
RenderCalled(cv, fmt, th, settings, order) ==
    /\ cv_data = cv
    /\ theme = th
    /\ design_settings = settings
    /\ section_order = order
    /\ pc = "none"
    /\ full_data = None
    /\ output_format = fmt
    /\ render = RenderNotStarted
    /\ cv_yaml = None
    /\ yaml_response = NoYamlResponse
    /\ AgainIdle /\ AiIdle

InitRender ==
    \/ \E P \in NearPatterns, o \in FixedOrders, fmt \in {"pdf", "png"}, n \in RenderNames :
            RenderCalled([PopulatedCV(P) EXCEPT !.name = n], fmt, "classic", NoDesign, o)
    \/ \E d \in DesignSettings, o \in FixedOrders, fmt \in {"pdf", "png"} :
            RenderCalled(PopulatedCV({"summary", "skills"}), fmt, "moderncv", d, o)

\* tempfile.mkdtemp, before the try: it makes the directory or raises.
RenderMkdtemp ==
    /\ render.pc = "idle"
    /\ \E made \in BOOLEAN :
          render' = IF made THEN [render EXCEPT !.pc = "try", !.temp_dir = "exists"]
                    ELSE [render EXCEPT !.pc = "raised", !.pending = "raise",
                                        !.error = "OSError"]
    /\ UNCHANGED <<call_vars, pc, full_data, again_vars, output_format, cv_yaml,
                   yaml_response, ai_vars>>

\* Assemble the document and write it to cv.yaml; opening or writing may raise.
RenderWriteYaml ==
    /\ render.pc = "try"
    /\ \E written \in BOOLEAN :
          IF written
          THEN /\ cv_yaml' = yaml_dump(_build_yaml_structure(cv_data, theme,
                                            design_settings, section_order))
               /\ render' = [render EXCEPT !.pc = "written"]
          ELSE /\ cv_yaml' = cv_yaml
               /\ render' = Raising(render, "OSError")
    /\ UNCHANGED <<call_vars, pc, full_data, again_vars, output_format,
                   yaml_response, ai_vars>>

\* build_rendercv_dictionary_and_model: a model, or a validation error.
RenderBuildModel ==
    /\ render.pc = "written"
    /\ \E valid \in BOOLEAN :
          render' = IF valid THEN [render EXCEPT !.pc = "modelled"]
                    ELSE Raising(render, "ValidationError")
    /\ UNCHANGED <<call_vars, pc, full_data, again_vars, output_format, cv_yaml,
                   yaml_response, ai_vars>>

\* generate_typst: a path, None (then ValueError), or an exception.
RenderTypst ==
    /\ render.pc = "modelled"
    /\ \E typst_path \in {"path", "None", "raise"} :
          render' = CASE typst_path = "path" -> [render EXCEPT !.pc = "typst"]
                      [] typst_path = "None" ->
                            Raising(render, "ValueError: Failed to generate Typst file")
                      [] OTHER -> Raising(render, "RendererError")
    /\ UNCHANGED <<call_vars, pc, full_data, again_vars, output_format, cv_yaml,
                   yaml_response, ai_vars>>

\* name = cv_data.get('name', 'CV').replace(' ', '_'): None has no replace.
RenderName ==
    /\ render.pc = "typst"
    /\ render' = IF cv_data.name = None THEN Raising(render, "AttributeError")
                 ELSE [render EXCEPT !.pc = "named", !.name = ReplaceSpaces(cv_data.name)]
    /\ UNCHANGED <<call_vars, pc, full_data, again_vars, output_format, cv_yaml,
                   yaml_response, ai_vars>>

\* The cleanup that runs only when a result is about to be returned.
RenderCleanupOnReturnOnly ==
    /\ render.pc = "finally"
    /\ render' = [render EXCEPT
            !.temp_dir = IF render.pending = "return" THEN "removed" ELSE @,
            !.pc = IF render.pending = "return" THEN "returned" ELSE "raised"]
    /\ UNCHANGED <<call_vars, pc, full_data, again_vars, output_format, cv_yaml,
                   yaml_response, ai_vars>>

\* finally: shutil.rmtree(temp_dir, ignore_errors=True), then the pending return or
\* exception reaches the caller.
RenderFinally ==
    /\ render.pc = "finally"
    /\ render' = [render EXCEPT
            !.temp_dir = "removed",
            !.pc = IF render.pending = "return" THEN "returned" ELSE "raised"]
    /\ UNCHANGED <<call_vars, pc, full_data, again_vars, output_format, cv_yaml,
                   yaml_response, ai_vars>>

\* generate_pdf or generate_png, then return the bytes read, or raise ValueError
\* when nothing was produced.
RenderOutput ==
    /\ render.pc = "named"
    /\ \E got \in RendererOutcomes :
          render' =
            CASE got = "produced" ->
                    [render EXCEPT !.pc = "finally", !.pending = "return",
                        !.generated = got,
                        !.output = IF output_format = "pdf" THEN "pdf" ELSE "png",
                        !.filename = render.name \o (IF output_format = "pdf"
                                                     THEN PdfSuffix ELSE PngSuffix)]
              [] got \in {"absent", "None"} ->
                    [Raising(render, "ValueError: Failed to generate output")
                        EXCEPT !.generated = got]
              [] OTHER -> [Raising(render, "RendererError") EXCEPT !.generated = got]
    /\ UNCHANGED <<call_vars, pc, full_data, again_vars, output_format, cv_yaml,
                   yaml_response, ai_vars>>

\* POST /yaml: design_dict and cv_dict go to generate_yaml; request.section_order
\* is not passed.
YamlEndpoint ==
    /\ yaml_response.status = 0
    /\ yaml_response' =
            [status |-> 200, yaml |-> generate_yaml(cv_data, theme, design_settings)]
    /\ UNCHANGED <<call_vars, pc, full_data, again_vars, output_format, render, cv_yaml,
                   ai_vars>>

NextRender ==
    \/ RenderMkdtemp
    \/ RenderWriteYaml
    \/ RenderBuildModel
    \/ RenderTypst
    \/ RenderName
    \/ RenderOutput
    \/ RenderFinally
    \/ YamlEndpoint

SpecRender == InitRender /\ [][NextRender]_vars

\* C15: once the /yaml endpoint has answered and render_cv has written cv.yaml for
\* the same request, the YAML returned is the text written to cv.yaml.
C15_YamlEndpointReturnsRenderedYaml ==
    (yaml_response.status = 200 /\ cv_yaml # None) => yaml_response.yaml = cv_yaml

\* Control is back with the caller of render_cv.
RenderExited == render.pc \in {"returned", "raised"}

\* C16: when render_cv has returned or raised, no temporary directory of the call
\* is left; it returns only with the bytes and file name of a produced output, and
\* a call whose renderer produced nothing has raised and handed back nothing.
C16_CleanupOnEveryExit ==
    /\ RenderExited => render.temp_dir # "exists"
    /\ (RenderExited /\ render.temp_dir = "none") => (render.pc = "raised" /\ cv_yaml = None)
    /\ render.pc = "returned" =>
            /\ render.generated = "produced"
            /\ render.output = output_format
            /\ render.filename # None
            /\ render.error = ""
    /\ (RenderExited /\ render.generated # "produced") =>
            /\ render.pc = "raised"
            /\ render.output = ""
            /\ render.filename = None
            /\ render.error # ""

\* A renderer that produced no PDF: the call raised and its directory is gone.
C16_Witness ==
    /\ render.pc = "raised"
    /\ output_format = "pdf"
    /\ render.generated = "absent"
    /\ render.error = "ValueError: Failed to generate output"
    /\ render.temp_dir = "removed"
    /\ cv_yaml # None

(***************************************************************************)
(* POST /ai/suggest and AIService                                           *)
(***************************************************************************)

\* The request types the handler dispatches on, and the method each one calls.
KnownTypes ==
    {"summary", "headline", "bullet", "education", "project_summary",
     "project_highlight", "skills", "generate", "honor"}

ServiceMethod(type) ==
    CASE type = "summary" -> "improve_summary"
      [] type = "headline" -> "generate_headline"
      [] type = "bullet" -> "improve_experience_bullet"
      [] type = "education" -> "improve_education_highlight"
      [] type = "project_summary" -> "improve_project_summary"
      [] type = "project_highlight" -> "improve_project_highlight"
      [] type = "skills" -> "suggest_skills"
      [] type = "generate" -> "generate_summary"
      [] type = "honor" -> "generate_honor_entry"
      [] OTHER -> ""

\* suggest_skills keeps the first five pieces of the reply.
SuggestedSkillsLimit == 5

\* Longest reply text enumerated character by character.
MaxReplyLen == 3

QUOTE == "\""

\* s.endswith(p)
EndsWith(s, p) == Len(s) >= Len(p) /\ SubSeq(s, Len(s) - Len(p) + 1, Len(s)) = p

\* l[:n]
FirstN(l, n) == SubSeq(l, 1, IF Len(l) < n THEN Len(l) ELSE n)

\* ", ".join(l)
RECURSIVE JoinCommaSpace(_)
JoinCommaSpace(l) ==
    IF l = <<>> THEN <<>>
    ELSE IF Len(l) = 1 THEN l[1]
    ELSE l[1] \o <<",", " ">> \o JoinCommaSpace(Tail(l))

\* What client.chat.completions.create and the reading of choices[0].message.content
\* can come to: the call raises, the reply has no choice, its content is None, or
\* its content is a text.
Failed(kind) == [outcome |-> kind, content |-> <<>>]
Replied(text) == [outcome |-> "content", content |-> text]

ReplyChars == {"a", ",", QUOTE, " "}

SevenSkills ==
    <<"a", ",", " ", "b", ",", "c", " ", ",", "d", ",", "e", ",", "f", ",", "g">>

Completions ==
    {Failed("raise"), Failed("no_choices"), Failed("content_none")}
    \cup {Replied(t) : t \in SeqsUpTo(ReplyChars, MaxReplyLen)}
    \cup {Replied(SevenSkills), Replied(<<" ", QUOTE, "a", " ", "b", QUOTE, "\t">>)}

\* _call_groq with the try/except left out: a failure propagates.
_call_groq_unguarded(cl, reply) ==
    IF cl = "None" THEN [raised |-> FALSE, result |-> <<>>]
    ELSE IF reply.outcome # "content" THEN [raised |-> TRUE, result |-> <<>>]
    ELSE LET result == Strip(reply.content)
         IN  [raised |-> FALSE,
              result |-> IF StartsWith(result, <<QUOTE>>) /\ EndsWith(result, <<QUOTE>>)
                         THEN SubSeq(result, 2, Len(result) - 1) ELSE result]

\* AIService._call_groq: what it returns, and whether an exception leaves it.
_call_groq(cl, reply) ==
    IF cl = "None" THEN [raised |-> FALSE, result |-> <<>>]
    ELSE IF reply.outcome # "content" THEN [raised |-> FALSE, result |-> <<>>]
    ELSE LET result == Strip(reply.content)
         IN  [raised |-> FALSE,
              result |-> IF StartsWith(result, <<QUOTE>>) /\ EndsWith(result, <<QUOTE>>)
                         THEN SubSeq(result, 2, Len(result) - 1) ELSE result]

\* suggest_skills, after its _call_groq: [s.strip() for s in result.split(",")][:5].
suggest_skills(result) == FirstN(MapSeq(SplitComma(result), Strip), SuggestedSkillsLimit)

\* str(e) for the HTTPException the handler raises for an unknown type.
UnknownTypeDetail(type) == <<"Unknown suggestion type: ", type>>

AiTypes == KnownTypes \cup {"bogus"}

\* The request has been validated and the handler is entered.
InitAI ==
    /\ \E type \in AiTypes, text \in {<<>>, <<"a", ",", "b">>}, context \in {None, <<"c">>} :
            ai_request = [type |-> type, text |-> text, context |-> context]
    /\ client \in {"None", "Groq"}
    /\ completion = NoCompletion
    /\ groq_call = NoCall
    /\ ai_response = [NoAiResponse EXCEPT !.pc = "received"]
    /\ cv_data = BlankCV
    /\ theme = "classic"
    /\ design_settings = NoDesign
    /\ section_order = None
    /\ pc = "none"
    /\ full_data = None
    /\ AgainIdle /\ RenderIdle

\* The else branch: HTTPException(400) is raised inside the try, caught by
\* `except Exception` and raised again as HTTPException(500, detail=str(e)).
AiSuggestUnknownType ==
    /\ ai_response.pc = "received"
    /\ ai_request.type \notin KnownTypes
    /\ ai_response' = [ai_response EXCEPT !.pc = "responded", !.status = 500,
                            !.detail = <<"400", ": ">> \o UnknownTypeDetail(ai_request.type)]
    /\ UNCHANGED <<call_vars, pc, full_data, again_vars, render_vars, ai_request, client,
                   completion, groq_call>>

\* A known type: the handler calls the AIService method for it.
AiSuggestDispatch ==
    /\ ai_response.pc = "received"
    /\ ai_request.type \in KnownTypes
    /\ ai_response' = [ai_response EXCEPT !.pc = "in_service"]
    /\ groq_call' = [groq_call EXCEPT !.state = ServiceMethod(ai_request.type)]
    /\ UNCHANGED <<call_vars, pc, full_data, again_vars, render_vars, ai_request, client,
                   completion>>

\* The method builds its prompt and calls _call_groq; with a client configured the
\* completion service answers or fails.  suggest_skills then splits the result.
ServiceCallGroq ==
    /\ ai_response.pc = "in_service"
    /\ groq_call.state \notin {"none", "done"}
    /\ \E reply \in (IF client = "None" THEN {NoCompletion} ELSE Completions) :
          LET call == _call_groq(client, reply)
          IN  /\ completion' = reply
              /\ groq_call' =
                    [state |-> "done", raised |-> call.raised, result |-> call.result,
                     skills |-> IF groq_call.state = "suggest_skills" /\ ~call.raised
                                THEN suggest_skills(call.result) ELSE <<>>]
    /\ UNCHANGED <<call_vars, pc, full_data, again_vars, render_vars, ai_request, client,
                   ai_response>>

\* Back in the handler: the AISuggestResponse, or the 500 of `except Exception`.
AiSuggestRespond ==
    /\ ai_response.pc = "in_service"
    /\ groq_call.state = "done"
    /\ ai_response' =
            IF groq_call.raised
            THEN [ai_response EXCEPT !.pc = "responded", !.status = 500,
                        !.detail = <<"completion failed">>]
            ELSE IF ai_request.type = "skills"
            THEN [ai_response EXCEPT !.pc = "responded", !.status = 200,
                        !.suggestion = JoinCommaSpace(groq_call.skills),
                        !.suggestions = groq_call.skills, !.has_suggestions = TRUE]
            ELSE [ai_response EXCEPT !.pc = "responded", !.status = 200,
                        !.suggestion = groq_call.result]
    /\ UNCHANGED <<call_vars, pc, full_data, again_vars, render_vars, ai_request, client,
                   completion, groq_call>>

NextAI ==
    \/ AiSuggestUnknownType
    \/ AiSuggestDispatch
    \/ ServiceCallGroq
    \/ AiSuggestRespond

SpecAI == InitAI /\ [][NextAI]_vars

\* C18: an answered request of unknown type has status 400 and a detail with
\* "Unknown suggestion type"; an answered request of known type has status 500
\* exactly when its handling raised.
C18_UnknownTypeAnswered400 ==
    ai_response.pc = "responded" =>
        IF ai_request.type \notin KnownTypes
        THEN /\ ai_response.status = 400
             /\ \E i \in 1..Len(ai_response.detail) :
                    ai_response.detail[i] = "Unknown suggestion type: "
        ELSE (ai_response.status = 500) <=> groq_call.raised

\* C19: no exception leaves _call_groq; its result is the empty string when no
\* client is configured (and then no completion is requested) or when the completion
\* fails; so a request of known type is answered 200 with a value, and suggest_skills
\* gives one to five trimmed strings.
C19_CallGroqNeverRaises ==
    /\ groq_call.state = "done" =>
            /\ ~groq_call.raised
            /\ client = "None" => (completion = NoCompletion /\ groq_call.result = <<>>)
            /\ completion.outcome # "content" => groq_call.result = <<>>
            /\ ai_request.type = "skills" =>
                    /\ Len(groq_call.skills) \in 1..SuggestedSkillsLimit
                    /\ \A i \in 1..Len(groq_call.skills) :
                            groq_call.skills[i] = Strip(groq_call.skills[i])
    /\ (ai_response.pc = "responded" /\ ai_request.type \in KnownTypes) =>
            /\ ai_response.status = 200
            /\ ai_response.has_suggestions <=> ai_request.type = "skills"
            /\ Len(ai_response.suggestions) <= SuggestedSkillsLimit

\* A skills request whose completion call raised: answered with one empty skill.
C19_Witness ==
    /\ ai_response.pc = "responded"
    /\ ai_request.type = "skills"
    /\ client = "Groq"
    /\ completion.outcome = "raise"
    /\ ~groq_call.raised
    /\ ai_response.status = 200
    /\ ai_response.suggestions = << <<>> >>

\* A reply of seven skills: the first five are kept.
C19_FiveOfSeven ==
    /\ ai_response.pc = "responded"
    /\ completion = Replied(SevenSkills)
    /\ ai_response.suggestions = << <<"a">>, <<"b">>, <<"c">>, <<"d">>, <<"e">> >>

====
